---------------------------- MODULE Spec2Model ----------------------------
(***************************************************************************)
(* A model of the scalar Kalman filter of src/src/lib.rs (ScalarKalman,    *)
(* predict, update, advance, kfilter).                                     *)
(*                                                                         *)
(* `type Float = f64': every number of the program is an IEEE-754 binary64 *)
(* value and every +, -, *, / rounds to nearest, ties to even.  The model  *)
(* computes exactly that: a Float is a sign, a 53-bit significand and an   *)
(* exponent, the exact result of an operation is computed on unbounded     *)
(* naturals (sequences of limbs, least significant first) and then rounded *)
(* to 53 bits.  Signed zeros are identified (-0.0 == 0.0 in Rust), and the *)
(* exponent is unbounded: InRange states that no value of a run leaves the *)
(* range of the normal doubles, where the two agree with the hardware.     *)
(***************************************************************************)
EXTENDS Integers, Sequences, FiniteSets, TLC

-----------------------------------------------------------------------------
(* Unbounded naturals: <<>> is 0, limbs in 0..Base-1, the top limb not 0.  *)
(* No operator recurses, and a value that is used more than once is handed *)
(* on as an operator's argument.                                           *)

Base == 2^15
LimbBits == 15
MantBits == 53

Limb(a, i) == IF 1 <= i /\ i <= Len(a) THEN a[i] ELSE 0

\* The sequence f with its elements evaluated
Tup(f) == f \o <<>>

\* a without its leading zero limbs
BNorm(a) ==
    SubSeq(a, 1, Cardinality({i \in 1..Len(a) : \E j \in i..Len(a) : a[j] # 0}))

\* The carry into limb i of a + b: the last limb below i whose sum is not
\* Base - 1 overflows
Carry(a, b, i) ==
    IF \E j \in 1..(i - 1) :
          /\ Limb(a, j) + Limb(b, j) >= Base
          /\ \A k \in (j + 1)..(i - 1) : Limb(a, k) + Limb(b, k) = Base - 1
    THEN 1 ELSE 0

BAdd(a, b) ==
    IF a = <<>> THEN BNorm(b)
    ELSE IF b = <<>> THEN BNorm(a)
    ELSE BNorm(Tup([i \in 1..((IF Len(a) > Len(b) THEN Len(a) ELSE Len(b)) + 1) |->
                      (Limb(a, i) + Limb(b, i) + Carry(a, b, i)) % Base]))

\* The borrow out of the limbs below i in a - b: the last limb below i in
\* which a and b differ has the smaller limb in a
Borrow(a, b, i) ==
    IF \E j \in 1..(i - 1) :
          /\ Limb(a, j) < Limb(b, j)
          /\ \A k \in (j + 1)..(i - 1) : Limb(a, k) = Limb(b, k)
    THEN 1 ELSE 0

\* a - b for a >= b
BSub(a, b) ==
    IF b = <<>> THEN a
    ELSE IF a = b THEN <<>>
    ELSE BNorm(Tup([i \in 1..Len(a) |->
                      (Limb(a, i) - Limb(b, i) - Borrow(a, b, i) + Base) % Base]))

\* The highest limb in which a and b differ, 0 when there is none
TopDiff(a, b, n) == Cardinality({i \in 1..n : \E j \in i..n : Limb(a, j) # Limb(b, j)})

\* -1, 0, 1 as a < b, a = b, a > b
BCmp(a, b) ==
    IF a = b THEN 0
    ELSE IF Len(a) < Len(b) THEN -1
    ELSE IF Len(a) > Len(b) THEN 1
    ELSE IF Limb(a, TopDiff(a, b, Len(a))) < Limb(b, TopDiff(a, b, Len(a))) THEN -1
    ELSE 1

BShiftLimbs(a, n) == IF a = <<>> THEN <<>> ELSE [i \in 1..n |-> 0] \o a

\* a * k for 0 <= k < Base: the low halves of the limb products plus their
\* high halves one limb up
BMulSmall(a, k) ==
    IF k = 0 \/ a = <<>> THEN <<>>
    ELSE BAdd(Tup([i \in 1..Len(a) |-> (a[i] * k) % Base]),
              <<0>> \o [i \in 1..Len(a) |-> (a[i] * k) \div Base])

\* The product of limb i of a and the limb of b that meets it in column k
Prod(a, b, i, k) == Limb(a, i) * Limb(b, k + 1 - i)

\* Column k of a * b, a and b of at most 4 limbs: the low halves of the limb
\* products of the column and the high halves of those of the column below
Column(a, b, k) ==
      (Prod(a, b, 1, k) % Base) + (Prod(a, b, 2, k) % Base)
    + (Prod(a, b, 3, k) % Base) + (Prod(a, b, 4, k) % Base)
    + (Prod(a, b, 1, k - 1) \div Base) + (Prod(a, b, 2, k - 1) \div Base)
    + (Prod(a, b, 3, k - 1) \div Base) + (Prod(a, b, 4, k - 1) \div Base)

\* The natural whose limb k, before carries, is col[k] < 8 * Base
BColumns(col) ==
    BAdd(Tup([k \in 1..Len(col) |-> col[k] % Base]),
         <<0>> \o [k \in 1..Len(col) |-> col[k] \div Base])

\* a * b for a and b of at most 4 limbs (two significands)
BMul4(a, b) ==
    IF a = <<>> \/ b = <<>> THEN <<>>
    ELSE BColumns(Tup([k \in 1..8 |-> Column(a, b, k)]))

\* 2^k
BPow2(k) == [i \in 1..(k \div LimbBits) |-> 0] \o <<2^(k % LimbBits)>>

\* a * 2^k
BShl(a, k) == BShiftLimbs(BMulSmall(a, 2^(k % LimbBits)), k \div LimbBits)

\* floor(d / 2^r) for r < LimbBits
BShrBits(d, r) ==
    BNorm(Tup([i \in 1..Len(d) |->
                 (d[i] \div (2^r)) + (Limb(d, i + 1) % (2^r)) * 2^(LimbBits - r)]))

\* floor(a / 2^k)
BShr(a, k) ==
    IF k \div LimbBits >= Len(a) THEN <<>>
    ELSE BShrBits(SubSeq(a, (k \div LimbBits) + 1, Len(a)), k % LimbBits)

\* a mod 2^k
BLow(a, k) ==
    IF a = <<>> THEN <<>>
    ELSE BNorm(Tup([i \in 1..((k \div LimbBits) + 1) |->
                      IF i <= k \div LimbBits THEN Limb(a, i)
                      ELSE Limb(a, i) % (2^(k % LimbBits))]))

\* The number of bits of 0 <= k < Base
BitLenSmall(k) == Cardinality({n \in 0..(LimbBits - 1) : 2^n <= k})

BBitLen(a) ==
    IF a = <<>> THEN 0 ELSE LimbBits * (Len(a) - 1) + BitLenSmall(a[Len(a)])

BOdd(a) == a # <<>> /\ a[1] % 2 = 1

BOne == <<1>>

\* The quotient of the two leading limbs of r by the leading limb of d, at
\* most Base - 1: for r < d * Base and the top limb of d at least Base / 2
\* it is floor(r / d) or up to 2 above it
DivEst(r, d) ==
    IF (Limb(r, Len(d) + 1) * Base + Limb(r, Len(d))) \div d[Len(d)] > Base - 1
    THEN Base - 1
    ELSE (Limb(r, Len(d) + 1) * Base + Limb(r, Len(d))) \div d[Len(d)]

\* q, or q - 1 when d * q is above r
DivFix(r, d, q) ==
    IF q = 0 THEN 0
    ELSE IF BCmp(BMulSmall(d, q), r) > 0 THEN q - 1
    ELSE q

\* floor(r / d) for r < d * Base and the top limb of d at least Base / 2
DivDigit(r, d) == DivFix(r, d, DivFix(r, d, DivEst(r, d)))

\* The digits q with digit below them, and what is left of r
DivRem(q, r, d, digit) == [q |-> <<digit>> \o q, r |-> BSub(r, BMulSmall(d, digit))]

\* One digit of long division: s.q the quotient so far and s.r < d the
\* remainder, the next digit is that of s.r * Base
DivStep(s, d) ==
    DivRem(s.q, BShiftLimbs(s.r, 1), d, DivDigit(BShiftLimbs(s.r, 1), d))

\* The leading digit, 0 or 1, of n / d for n < 2d
DivFirst(n, d) ==
    IF BCmp(n, d) >= 0 THEN [q |-> <<1>>, r |-> BSub(n, d)] ELSE [q |-> <<0>>, r |-> n]

\* q = floor(n * Base^4 / d) and the remainder r, for n < 2d and the top
\* limb of d at least Base / 2
BDiv4(n, d) == DivStep(DivStep(DivStep(DivStep(DivFirst(n, d), d), d), d), d)

-----------------------------------------------------------------------------
(* f64: the value (-1)^s * m * 2^e with m = <<>> (zero) or 2^52 <= m < 2^53 *)

Zero == [s |-> 0, m |-> <<>>, e |-> 0]

\* The double of a significand that rounding may have carried to 54 bits
Carried(s, q, e) ==
    IF BBitLen(q) > MantBits THEN [s |-> s, m |-> BShr(q, 1), e |-> e + 1]
    ELSE [s |-> s, m |-> q, e |-> e]

\* q rounded up when the bits cut off compare c = 1 with half a unit, or
\* c = 0 and q is odd
RoundUp(s, q, c, e) ==
    Carried(s, IF c > 0 \/ (c = 0 /\ BOdd(q)) THEN BAdd(q, BOne) ELSE q, e)

\* Round for M of L bits
RoundAt(s, M, e, L) ==
    IF L = 0 THEN Zero
    ELSE IF L <= MantBits
    THEN [s |-> s, m |-> BShl(M, MantBits - L), e |-> e - (MantBits - L)]
    ELSE RoundUp(s, BShr(M, L - MantBits),
                 BCmp(BLow(M, L - MantBits), BPow2(L - MantBits - 1)),
                 e + (L - MantBits))

\* The double nearest to (-1)^s * M * 2^e, ties to the even significand
Round(s, M, e) == RoundAt(s, M, e, BBitLen(M))

FNeg(a) == IF a.m = <<>> THEN Zero ELSE [a EXCEPT !.s = 1 - a.s]

\* f64::abs
FAbs(a) == [a EXCEPT !.s = 0]

\* a * b
FMul(a, b) ==
    IF a.m = <<>> \/ b.m = <<>> THEN Zero
    ELSE Round((a.s + b.s) % 2, BMul4(a.m, b.m), a.e + b.e)

\* (-1)^sa * ma * 2^e + (-1)^sb * mb * 2^e
AddMag(sa, ma, sb, mb, e) ==
    Round(IF sa = sb \/ BCmp(ma, mb) >= 0 THEN sa ELSE sb,
          IF sa = sb THEN BAdd(ma, mb)
          ELSE IF BCmp(ma, mb) >= 0 THEN BSub(ma, mb)
          ELSE BSub(mb, ma),
          e)

\* hi + lo for hi.e >= lo.e, neither zero.  An operand more than 55 binary
\* places below the other only decides the rounding direction: it is
\* replaced by one unit three places below the larger operand's last place.
AddAligned(hi, lo) ==
    IF hi.e - lo.e > MantBits + 2
    THEN AddMag(hi.s, BShl(hi.m, 3), lo.s, BOne, hi.e - 3)
    ELSE AddMag(hi.s, BShl(hi.m, hi.e - lo.e), lo.s, lo.m, lo.e)

\* a + b
FAdd(a, b) ==
    IF a.m = <<>> THEN b
    ELSE IF b.m = <<>> THEN a
    ELSE AddAligned(IF a.e >= b.e THEN a ELSE b, IF a.e >= b.e THEN b ELSE a)

\* a - b
FSub(a, b) == FAdd(a, FNeg(b))

\* The double of the quotient r.q and remainder r.r of a division: twice
\* the quotient, with a last bit that says whether anything was left
DivRound(s, r, e) ==
    Round(s, BAdd(BMulSmall(BNorm(r.q), 2), IF r.r = <<>> THEN <<>> ELSE BOne), e)

\* a / b for b # 0: the significands, shifted so that the divisor fills
\* its 4 limbs, give 60 or 61 quotient bits, then rounded
FDiv(a, b) ==
    IF a.m = <<>> \/ b.m = <<>> THEN Zero
    ELSE DivRound((a.s + b.s) % 2,
                  BDiv4(BShl(a.m, 4 * LimbBits - MantBits),
                        BShl(b.m, 4 * LimbBits - MantBits)),
                  a.e - b.e - 4 * LimbBits - 1)

\* -1, 0, 1 as |a| < |b|, |a| = |b|, |a| > |b|
MagCmp(a, b) ==
    IF a.m = <<>> THEN (IF b.m = <<>> THEN 0 ELSE -1)
    ELSE IF b.m = <<>> THEN 1
    ELSE IF a.e < b.e THEN -1
    ELSE IF a.e > b.e THEN 1
    ELSE BCmp(a.m, b.m)

\* -1, 0, 1 as a < b, a == b, a > b
FCmp(a, b) ==
    IF a.s = 0 /\ b.s = 0 THEN MagCmp(a, b)
    ELSE IF a.s = 1 /\ b.s = 1 THEN MagCmp(b, a)
    ELSE IF a.s = 1 THEN -1
    ELSE 1

FLt(a, b) == FCmp(a, b) < 0
FLe(a, b) == FCmp(a, b) <= 0

\* The f64 of a natural below 2^53 given by its limbs (exact)
FromNat(n) == Round(0, n, 0)

\* The f64 a decimal literal n / 10^k denotes, n < Base and k <= 8: the
\* literal is parsed to the nearest double, which is the rounded quotient.
BPow10(k) == IF k <= 4 THEN <<10^k>> ELSE BMulSmall(<<10^4>>, 10^(k - 4))
Dec(n, k) == FDiv(FromNat(<<n>>), FromNat(BPow10(k)))

-----------------------------------------------------------------------------
(* The literals of the program and the inputs the model draws from.        *)

One == FromNat(<<1>>)
Two == FromNat(<<2>>)
Five == FromNat(<<5>>)
\* 1e-8, the threshold of update's guard
Eps == Dec(1, 8)
Milli == Dec(1, 3)
SevenTenths == Dec(7, 1)

\* Option<Float>: None and Some(v)
None == <<>>
Some(v) == <<v>>

\* Calls made on the filter under test, a kfilter call counting once for
\* each observation of its vector
MaxCalls == 2
\* Observations fed to the twin, and so the length of the batch compared with it
MaxFed == 3
\* Calls of advance(5.0) in the convergence run
MaxAdvances == 4

\* Observations fed to update, advance and kfilter
Obs == {One, Five}

RECURSIVE SeqsUpTo(_)
SeqsUpTo(n) ==
    IF n = 0 THEN {<<>>}
    ELSE LET shorter == SeqsUpTo(n - 1)
         IN  shorter \cup {Append(v, z) : v \in {w \in shorter : Len(w) = n - 1}, z \in Obs}

\* The vectors handed to kfilter
Vecs == SeqsUpTo(MaxCalls)

-----------------------------------------------------------------------------
(* struct ScalarKalman and its methods, as functions of the struct.        *)

\* ScalarKalman::new
new(A, H, Q, R, x0, P0) ==
    [x |-> IF x0 # None THEN x0[1] ELSE Zero,
     P |-> IF P0 # None THEN P0[1] ELSE Zero,
     A |-> A, H |-> H, Q |-> Q, R |-> R]

\* A predict that also scales the transition coefficient
predict_Drift(self) ==
    [self EXCEPT !.x = FMul(self.x, self.A),
                 !.P = FAdd(FMul(FMul(self.A, self.P), self.A), self.Q),
                 !.A = FMul(self.A, self.A)]

\* ScalarKalman::predict
predict(self) ==
    [self EXCEPT !.x = FMul(self.x, self.A),
                 !.P = FAdd(FMul(FMul(self.A, self.P), self.A), self.Q)]

\* An innovation covariance that leaves the measurement noise out
InnovationCov_NoR(self) == FMul(FMul(self.H, self.P), self.H)

\* let S = self.H * self.P * self.H + self.R
InnovationCov(self) == FAdd(FMul(FMul(self.H, self.P), self.H), self.R)

\* A correction that moves x against the innovation
update_gain_Sign(self, y, K) ==
    [self |-> [self EXCEPT !.x = FSub(self.x, FMul(K, y)),
                           !.P = FMul(self.P, FSub(One, FMul(K, self.H)))],
     err |-> FALSE]

\* A correction that keeps the prior variance
update_gain_KeepP(self, y, K) ==
    [self |-> [self EXCEPT !.x = FAdd(self.x, FMul(K, y))], err |-> FALSE]

\* update once K is known: self.x += K * y; self.P *= 1.0 - K * self.H; Ok(())
update_gain(self, y, K) ==
    [self |-> [self EXCEPT !.x = FAdd(self.x, FMul(K, y)),
                           !.P = FMul(self.P, FSub(One, FMul(K, self.H)))],
     err |-> FALSE]

\* A guard that has stored the innovation in x when it returns Err
update_guard_Partial(self, y, S) ==
    IF FLt(FAbs(S), Eps) THEN [self |-> [self EXCEPT !.x = y], err |-> TRUE]
    ELSE update_gain(self, y, FMul(FMul(self.P, self.H), FDiv(One, S)))

\* A guard that tests the innovation y instead of S
update_guard_OnInnovation(self, y, S) ==
    IF FLt(FAbs(y), Eps) \/ S.m = <<>> THEN [self |-> self, err |-> TRUE]
    ELSE update_gain(self, y, FMul(FMul(self.P, self.H), FDiv(One, S)))

\* update once y and S are known: if S.abs() < 1e-8 return Err, else
\* S_inv = 1. / S and K = self.P * self.H * S_inv
update_guard(self, y, S) ==
    IF FLt(FAbs(S), Eps) THEN [self |-> self, err |-> TRUE]
    ELSE update_gain(self, y, FMul(FMul(self.P, self.H), FDiv(One, S)))

\* ScalarKalman::update: the struct afterwards and whether Err was returned
update(self, z) == update_guard(self, FSub(z, FMul(self.H, self.x)), InnovationCov(self))

\* An advance that restores the struct when update fails
advance_ret_Rollback(self, u) ==
    [self |-> IF u.err THEN self ELSE u.self, err |-> u.err,
     val |-> IF u.err THEN <<>> ELSE <<u.self.x>>]

\* advance once update has returned u: `?' hands an Err on, else Ok(self.x)
advance_ret(self, u) ==
    [self |-> u.self, err |-> u.err, val |-> IF u.err THEN <<>> ELSE <<u.self.x>>]

\* ScalarKalman::advance: the struct afterwards, whether Err was returned,
\* and the Ok value
advance(self, z) == advance_ret(self, update(predict(self), z))

\* A loop that takes every element from the filter as it was handed in
RECURSIVE kloop_Stale(_, _, _, _)
kloop_Stale(filter, vec, i, out) ==
    IF i > Len(vec) THEN [self |-> filter, err |-> FALSE, val |-> out]
    ELSE LET a == advance(filter, vec[i])
         IN  IF a.err THEN [self |-> a.self, err |-> TRUE, val |-> <<>>]
             ELSE IF i = Len(vec) THEN [self |-> a.self, err |-> FALSE, val |-> out \o a.val]
             ELSE kloop_Stale(filter, vec, i + 1, out \o a.val)

\* A loop that stops at the first Err and returns the estimates pushed so far
RECURSIVE kloop_Break(_, _, _, _)
kloop_Break(filter, vec, i, out) ==
    IF i > Len(vec) THEN [self |-> filter, err |-> FALSE, val |-> out]
    ELSE LET a == advance(filter, vec[i])
         IN  IF a.err THEN [self |-> a.self, err |-> FALSE, val |-> out]
             ELSE kloop_Break(a.self, vec, i + 1, out \o a.val)

RECURSIVE kloop(_, _, _, _)

\* The loop once filter.advance(vec[i]) has returned a: `?' returns the Err
\* and drops out, else out.push and on to the next element
kloop_push(a, vec, i, out) ==
    IF a.err THEN [self |-> a.self, err |-> TRUE, val |-> <<>>]
    ELSE kloop(a.self, vec, i + 1, out \o a.val)

\* kfilter's loop from element i of vec on, out the estimates pushed so far
kloop(filter, vec, i, out) ==
    IF i > Len(vec) THEN [self |-> filter, err |-> FALSE, val |-> out]
    ELSE kloop_push(advance(filter, vec[i]), vec, i, out)

\* kfilter
kfilter(filter, vec) == kloop(filter, vec, 1, <<>>)

-----------------------------------------------------------------------------
(* The state: one filter and the outcome of the last call on it; a twin,  *)
(* constructed with the same arguments, that a second caller drives by    *)
(* single advance calls.                                                   *)

VARIABLES
    filter,     \* the ScalarKalman under test
    ret,        \* the last call on filter: its name, arguments and result
    calls,      \* the calls made on filter, counted by Weight
    twin,       \* a ScalarKalman constructed with identical arguments
    fed,        \* the observations twin.advance was called with, in order
    outs        \* for each of those calls: the twin before it, and its result

vars == <<filter, ret, calls, twin, fed, outs>>

Constructed(A, H, Q, R, x0, P0) ==
    /\ filter = new(A, H, Q, R, x0, P0)
    /\ twin = new(A, H, Q, R, x0, P0)
    /\ ret = [op |-> "new", arg |-> <<>>, ok |-> TRUE, err |-> "", val |-> <<>>]
    /\ calls = 0
    /\ fed = <<>>
    /\ outs = <<>>

\* The optional arguments: both left out, or both given
Defaults == <<None, None>>

Init ==
    \E A \in {One, Two}, H \in {Zero, SevenTenths}, Q \in {Zero, Milli},
       R \in {Zero, Eps, One}, o \in {Defaults, <<Some(Five), Some(One)>>} :
        Constructed(A, H, Q, R, o[1], o[2])

\* What a call with the arguments arg counts for
Weight(arg) == IF Len(arg) > 1 THEN Len(arg) ELSE 1

\* A call on filter that left the struct r.self and returned Ok(r.val), or
\* Err(FailedScalarInverse) when r.err
Call(op, arg, r) ==
    /\ filter' = r.self
    /\ ret' = [op |-> op, arg |-> arg, ok |-> ~r.err,
               err |-> IF r.err THEN "FailedScalarInverse" ELSE "",
               val |-> IF r.err THEN <<>> ELSE r.val]
    /\ calls' = calls + Weight(arg)
    /\ UNCHANGED <<twin, fed, outs>>

Predict == Call("predict", <<>>, [self |-> predict(filter), err |-> FALSE, val |-> <<>>])

Update(z) == Call("update", <<z>>, [val |-> <<>>] @@ update(filter, z))

Advance(z) == Call("advance", <<z>>, advance(filter, z))

Kfilter(vec) == Call("kfilter", vec, kfilter(filter, vec))

Next ==
    \/ calls < MaxCalls /\ Predict
    \/ \E z \in Obs : calls < MaxCalls /\ Update(z)
    \/ \E z \in Obs : calls < MaxCalls /\ Advance(z)
    \/ \E vec \in Vecs : calls + Weight(vec) <= MaxCalls /\ Kfilter(vec)

\* Any sequence of calls on a filter that stays within MaxCalls
Spec == Init /\ [][Next]_vars

-----------------------------------------------------------------------------
(* One batch call on a freshly constructed filter, beside single advance   *)
(* calls with the same observations on the twin.                           *)

InitBatch ==
    \E A \in {One, Two}, H \in {Zero, One}, n \in {<<Zero, Zero>>, <<Milli, One>>},
       o \in {Defaults, <<Some(Zero), Some(One)>>} :
        Constructed(A, H, n[1], n[2], o[1], o[2])

\* twin.advance(z), called whatever the call before it returned
TwinCall(z, r) ==
    /\ Len(fed) < MaxFed
    /\ twin' = r.self
    /\ outs' = Append(outs, [pre |-> twin, ok |-> ~r.err, val |-> r.val])
    /\ fed' = Append(fed, z)
    /\ UNCHANGED <<filter, ret, calls>>

TwinAdvance(z) == TwinCall(z, advance(twin, z))

\* kfilter(filter, vec) on the fresh filter, vec the observations fed to the
\* twin so far
Batch ==
    /\ calls = 0
    /\ Kfilter(fed)

NextBatch ==
    \/ \E z \in Obs : TwinAdvance(z)
    \/ Batch

SpecBatch == InitBatch /\ [][NextBatch]_vars

-----------------------------------------------------------------------------
(* A=1, H=1, Q=0, R=1 and advance(5.0) over and over.                      *)

Nine == FromNat(<<9>>)

InitConv ==
    \E x0 \in {None, Some(One), Some(Five), Some(Nine), Some(FNeg(Two))},
       P0 \in {None, Some(Eps), Some(Milli), Some(One), Some(Five)} :
        Constructed(One, One, Zero, One, x0, P0)

NextConv == calls < MaxAdvances /\ Advance(Five)

SpecConv == InitConv /\ [][NextConv]_vars

-----------------------------------------------------------------------------
(* The doubles of a run stay far inside the normal range, where the        *)
(* unbounded exponent of the model and the hardware's agree.               *)

Normal(a) == a.m = <<>> \/ (a.e + MantBits \in -255..255)

InRange ==
    \A f \in {filter, twin} : \A k \in {"x", "P", "A", "H", "Q", "R"} : Normal(f[k])

-----------------------------------------------------------------------------
(* The claims.  A step of Spec is one call, and ret' names it.             *)

\* |H*P*H + R| < 1e-8 for the coefficients of f and the variance P
Singular(f, P) == FLt(FAbs(FAdd(FMul(FMul(f.H, P), f.H), f.R)), Eps)

\* C1: update fails with FailedScalarInverse exactly when S = H*P*H + R of
\* the state it is called on (for advance: the predicted state, whose P is
\* A*P*A + Q) has |S| < 1e-8 and succeeds whenever |S| >= 1e-8; predict never
\* fails, and no call of update, advance or kfilter has another error outcome.
C1_GuardExact ==
    [][/\ ret'.op = "update" => (ret'.ok <=> ~Singular(filter, filter.P))
       /\ ret'.op = "advance" =>
            (ret'.ok <=> ~Singular(filter, FAdd(FMul(FMul(filter.A, filter.P), filter.A), filter.Q)))
       /\ ret'.op = "predict" => ret'.ok
       /\ ret'.err \in {"", "FailedScalarInverse"}
       /\ ret'.ok <=> ret'.err = ""]_vars

\* update succeeded on S = 1e-8 exactly: the bound of the guard is strict
C1_Witness ==
    /\ ret.op = "update" /\ ret.ok
    /\ filter.H = Zero /\ filter.R = Eps

C3_AdvanceNoRollback ==
    [][ret'.op = "advance" =>
         IF ret'.ok THEN ret'.val = <<filter'.x>>
         ELSE /\ filter'.x = FMul(filter.x, filter.A)
              /\ filter'.P = FAdd(FMul(FMul(filter.A, filter.P), filter.A), filter.Q)
              /\ ret'.val = <<>>]_vars

\* the first call, an advance, failed and the prediction moved x and P
C3_Witness ==
    /\ calls = 1 /\ ret.op = "advance" /\ ~ret.ok
    /\ filter.x # twin.x /\ filter.P # twin.P

\* C4: when none of the twin's advance calls on the observations of the batch
\* failed, the batch succeeds, returns as many estimates as observations, the
\* i-th equal to what the twin's i-th advance returned, and both filters end
\* with the same x and P.
C4_BatchEquivalence ==
    (ret.op = "kfilter" /\ ret.arg = fed /\ \A i \in 1..Len(outs) : outs[i].ok) =>
        /\ ret.ok
        /\ Len(ret.val) = Len(fed)
        /\ \A i \in 1..Len(fed) : <<ret.val[i]>> = outs[i].val
        /\ filter.x = twin.x
        /\ filter.P = twin.P

\* a successful batch of MaxFed observations, not all the same
C4_Witness ==
    /\ ret.op = "kfilter" /\ ret.ok /\ ret.arg = fed
    /\ Len(fed) = MaxFed /\ fed[1] # fed[2]
    /\ ret.val[1] # ret.val[2]

\* The first of the twin's calls that failed
FirstErr == CHOOSE k \in 1..Len(outs) : ~outs[k].ok /\ \A i \in 1..(k - 1) : outs[i].ok

\* C5: when observation k is the first on which advance fails, the batch
\* returns the error and no estimates, and leaves the filter in the state
\* predicted from the one after the first k-1 advances: nothing is rolled
\* back and no later observation is processed.
C5_BatchFailFast ==
    (ret.op = "kfilter" /\ ret.arg = fed /\ \E k \in 1..Len(outs) : ~outs[k].ok) =>
        /\ ~ret.ok
        /\ ret.err = "FailedScalarInverse"
        /\ ret.val = <<>>
        /\ filter.x = FMul(outs[FirstErr].pre.x, outs[FirstErr].pre.A)
        /\ filter.P = FAdd(FMul(FMul(outs[FirstErr].pre.A, outs[FirstErr].pre.P),
                                outs[FirstErr].pre.A), outs[FirstErr].pre.Q)

\* the batch failed on its second observation of three; the twin, which went
\* on to the third, is where the batch is not
C5_Witness ==
    /\ ret.op = "kfilter" /\ ~ret.ok /\ ret.arg = fed
    /\ Len(fed) = 3 /\ outs[1].ok /\ ~outs[2].ok
    /\ filter.x # twin.x
    /\ filter.x # outs[2].pre.x

\* |5.0 - x|
Dist(f) == FAbs(FSub(Five, f.x))

Scenario ==
    /\ twin.A = One /\ twin.H = One /\ twin.Q = Milli /\ twin.R = One
    /\ fed = <<One, One, One>>
    /\ outs[1].pre.x = Zero /\ outs[1].pre.P = One

\* |v - n / 10^k| < 0.001
Near(v, n, k) == FLt(FAbs(FSub(v, Dec(n, k))), Milli)

\* Three estimates, strictly increasing, below 1.0, about 0.5, 0.667, 0.75
Estimates(v) ==
    /\ Len(v) = 3
    /\ FLt(v[1], v[2]) /\ FLt(v[2], v[3])
    /\ \A i \in 1..3 : FLt(v[i], One)
    /\ Near(v[1], 5, 1) /\ Near(v[2], 667, 3) /\ Near(v[3], 75, 2)

\* C7: in the scenario each of the three advance calls succeeds, and so does
\* the batch; the estimates returned, either way, are strictly increasing,
\* each below 1.0, and within 0.001 of 0.5, 0.667 and 0.75.
C7_Scenario ==
    Scenario =>
        /\ \A i \in 1..3 : outs[i].ok
        /\ Estimates(outs[1].val \o outs[2].val \o outs[3].val)
        /\ (ret.op = "kfilter" /\ ret.arg = fed) => (ret.ok /\ Estimates(ret.val))

\* the scenario, run by three advance calls and by one batch call
C7_Witness ==
    /\ Scenario
    /\ ret.op = "kfilter" /\ ret.arg = fed /\ ret.ok
    /\ twin.x = filter.x /\ FLt(Zero, filter.x)

\* The fields of the struct other than x and P
Coeffs(f) == [k \in DOMAIN f \ {"x", "P"} |-> f[k]]

\* C8: no call changes A, H, Q or R, and the struct has these four, x and P
\* as its fields in every state.
C8_CoefficientsFixed ==
    [][/\ Coeffs(filter') = Coeffs(filter)
       /\ DOMAIN filter' = {"x", "P", "A", "H", "Q", "R"}]_vars

\* MaxCalls calls, the last one failing, have changed x and P
C8_Witness ==
    /\ calls = MaxCalls /\ ~ret.ok
    /\ filter.x # twin.x /\ filter.P # twin.P
    /\ filter.A = Two /\ filter.Q = Milli

\* C9: with Q >= 0, R >= 0 and P0 >= 0, P >= 0 in every reachable state.
C9_VarianceNonNegative ==
    (FLe(Zero, filter.Q) /\ FLe(Zero, filter.R) /\ FLe(Zero, twin.P)) => FLe(Zero, filter.P)

\* C10 as stated: on the state a failed update(z) was called on, which is
\* the state it left, update(z2) succeeds for another observation z2.
C10_RetrySucceeds ==
    (ret.op = "update" /\ ~ret.ok) =>
        \E z2 \in Obs \ {ret.arg[1]} : ~update(filter, z2).err

\* C10: whether update fails on a state does not depend on the observation:
\* S = H*P*H + R has no z in it, so on a state where update(z) fails it fails
\* for every other z too (and succeeds for every z where it succeeds for one).
C10_GuardIgnoresObservation ==
    Cardinality({update(filter, z).err : z \in Obs}) = 1

\* update(1.0) failed, and update(5.0) on the state it left fails as well
C10_Witness ==
    /\ ret.op = "update" /\ ret.arg = <<One>> /\ ~ret.ok
    /\ update(filter, Five).err

=============================================================================
